---- MODULE Spec2Model ----
(***************************************************************************)
(* Auction system over a RabbitMQ direct exchange.                         *)
(*                                                                         *)
(*   MS Leilao (src/src/ms/leilao.py): the auction registry.  A REST        *)
(*   handler creates auctions, a polling thread starts and finishes them   *)
(*   and publishes leilao.iniciado / leilao.finalizado.                    *)
(*                                                                         *)
(*   MS Lance (src/src/ms/lance.py): the bid validator.  One consumer       *)
(*   thread handles the two lifecycle queues, Flask threads handle POST    *)
(*   /lances; both sides share active_auctions and best_bids under         *)
(*   auctions_lock.  It publishes lance.validado, lance.invalidado and     *)
(*   leilao.vencedor.                                                      *)
(*                                                                         *)
(*   MS Notificacao (src/src/ms/notificacao.py): the notification router.   *)
(*   It consumes lance.validado and leilao.vencedor and republishes every  *)
(*   event with the routing key leilao.<id> of its auction.                *)
(*                                                                         *)
(*   Clients (src/src/clients/client.py) publish signed bids on            *)
(*   lance.realizado and consume the queue leilao_<id> of every auction    *)
(*   they bid on.                                                          *)
(*                                                                         *)
(* Times are integers (clock readings), user ids are strings.  A bid value *)
(* is what float() returns: a number, modelled as an integer, or NaN.      *)
(***************************************************************************)
EXTENDS Integers, Sequences, FiniteSets, TLC

\* ----------------------------------------------------------------- bounds
MaxBids      == 2   \* POST /lances requests in one run
MaxFaults    == 1   \* transport faults in one run: lost acks, failed publishes

AuctionIds == {1, 2}             \* ids the registry hands out in one run

\* user_id is opaque to MS Lance (it is only copied): the n-th request is sent
\* by the n-th client, so that every bid can be told from the others
Clients   == <<"A", "B", "C", "D", "E", "F">>
Times     == {0, 1}              \* clock readings, start and end times; 0 is
                                 \* the reading at the start-up batch
BidIds    == {0} \cup AuctionIds \* auction_id of a bid; 0 is the falsy id
\* lance.py:166  float(data.get("value")) also parses "nan"; the code of NaN
\* lies outside the numbers used as values
NaN       == 99
BidValues == {0, 1, 2, NaN}      \* value of a bid; 0 is the falsy value
\* the clock readings and end times of a run that follows the registry alone
LateTimes == Times \cup {2}
\* the bodies of POST /lances: every value against auction 1, one value
\* against the other ids
BidInputs == {b \in BidIds \X BidValues : b[1] = 1 \/ b[2] = 1}
Kinds     == {"leilao.iniciado", "leilao.finalizado"}

\* leilao.py:3-58  the hardcoded auctions, cut to the first entry
lista_leiloes == <<"Leilao de Produto A">>
\* leilao.py:75-76  in clock units
START_STAGGER_SEC == 1
DURATION_SEC      == 1
\* the number of the publish that raises in one iteration of the loop; 0: none
PublishSlots == 0..(2 * Cardinality(AuctionIds))
NoUser    == "None"              \* Python's None in (None, 0.0)
\* client.py:16  the two instances of the client
ClientIds == {"A", "B"}
\* a lifecycle message whose body json.loads or int() rejects
Undecodable == -1
\* Python's None where an id is expected: .get() of a key that is missing
NoId      == 0
\* notificacao.py:32-33  the queues the router consumes
RouterQueues == {"lance_validado", "leilao_vencedor"}

VARIABLES
  \* ---- MS Leilao
  leiloes_db,           \* list of auctions [id, start_at, end_at, status]
  leiloes_ativos,       \* dict auction_id -> end_at, in insertion order
  leiloes_finalizados,  \* set of auction ids
  next_auction_id,
  now,                  \* the wall clock
  pub_reg,              \* history: the events the registry published, in order
  sched,                \* the scheduler thread: "delay", "loop" or "dead"
  criar_status,         \* HTTP status of the last POST /leiloes; 0: none yet
  \* ---- broker
  q_iniciado,           \* queue leilao_iniciado.ms_lance
  q_finalizado,         \* queue leilao_finalizado.ms_lance
  bus,                  \* events MS Lance published on the exchange, in order
  faults,               \* number of lost acks and failed publishes so far
  \* ---- MS Lance
  active_auctions,
  best_bids,            \* auction_id -> [user, value]
  auctions_lock,        \* 0: free; n: held by bid request number n
  reqs,                 \* the POST /lances requests inside the critical section
  nreq,                 \* number of POST /lances requests received so far
  offered,              \* history: the bids that passed the activity check
  winner_computed,      \* history: ids whose leilao.finalizado was processed
  \* ---- MS Notificacao
  q_validado,           \* queue lance_validado
  q_vencedor,           \* queue leilao_vencedor
  leilao_queues,        \* auction id -> the queue leilao_<id>, once declared
  router,               \* the router process: "up" or "dead"
  routed,               \* history: what the router published, in order
  \* ---- clients
  q_realizado,          \* queue lance_realizado
  started_consumers,    \* client -> the auctions whose queue it consumes
  received,             \* history: client -> the notifications it got, in order
  verdicts              \* client -> the results it has announced to its user

regVars == <<leiloes_db, leiloes_ativos, leiloes_finalizados, next_auction_id,
             now, pub_reg, sched, criar_status>>
brokerVars == <<q_iniciado, q_finalizado, bus, faults>>
valVars == <<active_auctions, best_bids, auctions_lock, reqs, nreq, offered,
            winner_computed>>
notifVars == <<q_validado, q_vencedor, leilao_queues, router, routed,
              q_realizado, started_consumers, received, verdicts>>
vars == <<regVars, brokerVars, valVars, notifVars>>

\* the faults of one step: a lost ack, a failed publish
Fault(done) == IF done THEN 0 ELSE 1

\* ------------------------------------------------------------ MS Leilao

\* mutant of IdsOf: the active auctions are not seen
IdsOf_Forgotten(ativos) == {}

\* leilao.py:247,263  the keys of leiloes_ativos
IdsOf(ativos) == {ativos[i].id : i \in DOMAIN ativos}

\* mutant of NextId: the counter stands still
NextId_Same(id) == id

\* leilao.py:152,223  next_auction_id += 1
NextId(id) == id + 1

\* leilao.py:221-235  the start-up batch: every entry of lista_leiloes gets
\* the next id, starts idx * START_STAGGER_SEC after the clock reading t and
\* lasts DURATION_SEC
LoadBatch(db, next_id, t) ==
  LET Id[idx \in 1..Len(lista_leiloes)] ==
        IF idx = 1 THEN next_id ELSE NextId(Id[idx - 1])
      F[idx \in 0..Len(lista_leiloes)] ==
        IF idx = 0 THEN db
        ELSE Append(F[idx - 1],
                    [id       |-> Id[idx],
                     start_at |-> t + (idx - 1) * START_STAGGER_SEC,
                     end_at   |-> t + (idx - 1) * START_STAGGER_SEC + DURATION_SEC,
                     status   |-> "agendado"])
  IN F[Len(lista_leiloes)]

\* mutant of StartDue: an auction already finished can start again
StartDue_Restart(l, ativos, finalizados, t) ==
  l.id \notin IdsOf(ativos) /\ t >= l.start_at

\* mutant of StartDue: the clock is not looked at
StartDue_NoClock(l, ativos, finalizados, t) ==
  l.id \notin IdsOf(ativos) /\ l.id \notin finalizados

\* leilao.py:247  the start condition of the polling loop
StartDue(l, ativos, finalizados, t) ==
  /\ l.id \notin IdsOf(ativos)
  /\ l.id \notin finalizados
  /\ t >= l.start_at

\* mutant of Activate: the started auction is not recorded
Activate_Skipped(ativos, l) == ativos

\* leilao.py:259  leiloes_ativos[aid] = leilao["end_at"]
Activate(ativos, l) == Append(ativos, [id |-> l.id, end_at |-> l.end_at])

\* leilao.py:182-202  GET /leiloes: the auctions of leiloes_db whose id is in
\* leiloes_ativos, read under leiloes_lock
consultar_leiloes(db, ativos) ==
  {db[i].id : i \in {j \in DOMAIN db : db[j].id \in IdsOf(ativos)}}

\* leilao.py:245-260  the start loop over leiloes_db, in list order; the
\* publish number fail of the iteration raises (0: none does), which ends
\* the loop before the auction is recorded as started
StartAll(db, ativos, finalizados, t, fail) ==
  LET F[i \in 0..Len(db)] ==
        IF i = 0 THEN [db |-> db, ativos |-> ativos, pub |-> <<>>, raised |-> FALSE]
        ELSE LET p == F[i - 1]
                 l == p.db[i]
             IN IF p.raised \/ ~StartDue(l, p.ativos, finalizados, t)
                THEN p
                ELSE IF Len(p.pub) + 1 = fail
                THEN [p EXCEPT !.raised = TRUE]
                ELSE [db     |-> [p.db EXCEPT ![i].status = "ativo"],
                      ativos |-> Activate(p.ativos, l),
                      pub    |-> Append(p.pub, l.id),
                      raised |-> FALSE]
  IN F[Len(db)]

\* leilao.py:263  ended = [aid for aid, end_at in leiloes_ativos.items() if now >= end_at]
Ended(ativos, t) ==
  LET due == SelectSeq(ativos, LAMBDA e : t >= e.end_at)
  IN [i \in DOMAIN due |-> due[i].id]

\* mutant of MarkFinalizado: the status of the finished auction is left as it is
MarkFinalizado_Skipped(db, aid) == db

\* leilao.py:271-274  the first auction of leiloes_db with this id becomes finalizado
MarkFinalizado(db, aid) ==
  LET hits == {i \in DOMAIN db : db[i].id = aid}
  IN IF hits = {} THEN db
     ELSE LET k == CHOOSE i \in hits : \A j \in hits : i <= j
          IN [db EXCEPT ![k].status = "finalizado"]

\* mutant of AddFinalizado: the finished id is not recorded
AddFinalizado_Dropped(finalizados, aid) == finalizados

\* leilao.py:268  leiloes_finalizados.add(aid)
AddFinalizado(finalizados, aid) == finalizados \cup {aid}

\* leilao.py:264-274  the finish loop over ended, in list order, after done
\* publishes of the same iteration; the publish number fail raises
FinishAll(db, ativos, finalizados, ended, done, fail) ==
  LET F[i \in 0..Len(ended)] ==
        IF i = 0 THEN [db |-> db, ativos |-> ativos, finalizados |-> finalizados,
                       pub |-> <<>>, raised |-> FALSE]
        ELSE LET p == F[i - 1]
                 aid == ended[i]
             IN IF p.raised THEN p
                ELSE IF done + i = fail
                THEN [p EXCEPT !.raised = TRUE]
                ELSE [db          |-> MarkFinalizado(p.db, aid),
                      ativos      |-> SelectSeq(p.ativos, LAMBDA e : e.id # aid),
                      finalizados |-> AddFinalizado(p.finalizados, aid),
                      pub         |-> Append(p.pub, aid),
                      raised      |-> FALSE]
  IN F[Len(ended)]

\* leilao.py:257,266  the events one iteration published, in order
Published(started, ended) ==
  [i \in DOMAIN started |-> [kind |-> "leilao.iniciado", id |-> started[i]]]
  \o [i \in DOMAIN ended |-> [kind |-> "leilao.finalizado", id |-> ended[i]]]

\* mutant of InvalidSchedule: equal start and end pass
InvalidSchedule_Strict(start_at, end_at) == end_at < start_at

\* leilao.py:147  if end_at <= start_at
InvalidSchedule(start_at, end_at) == end_at <= start_at

\* the ids left for POST /leiloes: the requests of one run leave room for the
\* ids of the start-up batch
IdAvailable ==
  next_auction_id + (IF sched = "delay" THEN Len(lista_leiloes) ELSE 0) \in AuctionIds

\* leilao.py:125-179  POST /leiloes
criar_leilao(start_at, end_at) ==
  /\ IdAvailable
  /\ IF InvalidSchedule(start_at, end_at)
     THEN /\ criar_status' = 400
          /\ UNCHANGED <<leiloes_db, next_auction_id>>
     ELSE /\ leiloes_db' = Append(leiloes_db,
                                  [id |-> next_auction_id, start_at |-> start_at,
                                   end_at |-> end_at, status |-> "agendado"])
          /\ next_auction_id' = NextId(next_auction_id)
          /\ criar_status' = 201
  /\ UNCHANGED <<leiloes_ativos, leiloes_finalizados, now, pub_reg, sched>>
  /\ UNCHANGED <<brokerVars, valVars, notifVars>>

\* leilao.py:207-237  the scheduler thread after its start-up delay: the
\* hardcoded auctions are appended under leiloes_lock
load_batch ==
  /\ sched = "delay"
  /\ leiloes_db' = LoadBatch(leiloes_db, next_auction_id, now)
  /\ next_auction_id' = NextId(leiloes_db'[Len(leiloes_db')].id)
  /\ sched' = "loop"
  /\ UNCHANGED <<leiloes_ativos, leiloes_finalizados, now, pub_reg, criar_status>>
  /\ UNCHANGED <<brokerVars, valVars, notifVars>>

\* leilao.py:240-281  one iteration of the polling loop: the block under
\* leiloes_lock, outside of which no thread reads or writes the registry.
\* A publish that raises leaves the loop (only KeyboardInterrupt is caught)
\* and the thread ends.
manage_auctions(fail) ==
  /\ sched = "loop"
  /\ \E s \in {StartAll(leiloes_db, leiloes_ativos, leiloes_finalizados, now, fail)} :
     \E ended \in {IF s.raised THEN <<>> ELSE Ended(s.ativos, now)} :
     \E f \in {FinishAll(s.db, s.ativos, leiloes_finalizados, ended, Len(s.pub), fail)} :
     \E raised \in {s.raised \/ f.raised} :
     /\ (fail # 0) = raised
     /\ faults + Fault(~raised) <= MaxFaults
     /\ faults' = faults + Fault(~raised)
     /\ sched' = IF raised THEN "dead" ELSE "loop"
     /\ leiloes_db' = f.db
     /\ leiloes_ativos' = f.ativos
     /\ leiloes_finalizados' = f.finalizados
     /\ q_iniciado' = q_iniciado \o s.pub
     /\ q_finalizado' = q_finalizado \o f.pub
     /\ pub_reg' = pub_reg \o Published(s.pub, f.pub)
     /\ UNCHANGED <<next_auction_id, now, bus, criar_status>>
     /\ UNCHANGED <<valVars, notifVars>>

\* the clock read at leilao.py:218 and 241 advances.  Only the scheduler
\* thread reads the clock, so that time counts from the reading of the
\* start-up batch and stands still for a thread that has ended.
Advance(clock) ==
  /\ sched = "loop"
  /\ now + 1 \in clock
  /\ now' = now + 1
  /\ UNCHANGED <<leiloes_db, leiloes_ativos, leiloes_finalizados, next_auction_id,
                 pub_reg, sched, criar_status>>
  /\ UNCHANGED <<brokerVars, valVars, notifVars>>

\* ------------------------------------------------------------- MS Lance

\* lance.py:68-82  publish: the event reaches the exchange unless the
\* connection or the basic_publish raises, which is caught and only logged
publish(b, event, ok) == IF ok THEN Append(b, event) ELSE b

\* mutant of LockFree: the critical sections are entered without the lock
LockFree_Unchecked == TRUE

\* lance.py:171  with auctions_lock: a thread enters when the lock is free
LockFree == auctions_lock = 0

\* mutant of Acquire: the critical section is entered, the lock stays free
Acquire_Nothing(n) == 0

\* lance.py:171  with auctions_lock: the entering request n owns the lock
Acquire(n) == n

\* lance.py:186  best_bids.get(auction_id, (None, 0.0))
GetBest(bb, aid) ==
  IF aid \in DOMAIN bb THEN bb[aid] ELSE [user |-> NoUser, value |-> 0]

\* mutant of SetBest: the store keeps the written entry alone
SetBest_Single(bb, aid, entry) == [a \in {aid} |-> entry]

\* lance.py:94, 201  best_bids[aid] = ...
SetBest(bb, aid, entry) ==
  [a \in DOMAIN bb \cup {aid} |-> IF a = aid THEN entry ELSE bb[a]]

\* mutant of NeedsEmptyEntry: every started event resets the entry
NeedsEmptyEntry_Always(bb, aid) == TRUE

\* lance.py:93  if aid not in best_bids
NeedsEmptyEntry(bb, aid) == aid \notin DOMAIN bb

\* mutant of Deactivate: a finished event closes every auction
Deactivate_All(active, aid) == {}

\* lance.py:111-112  if aid in active_auctions: active_auctions.remove(aid)
Deactivate(active, aid) == active \ {aid}

\* mutant of HasWinner: the bidder of the entry is not looked at
HasWinner_AnyEntry(bb, aid) == aid \in DOMAIN bb

\* lance.py:115  if aid in best_bids and best_bids[aid][0] is not None
HasWinner(bb, aid) == aid \in DOMAIN bb /\ bb[aid].user # NoUser

\* Python's <= on floats: every comparison with NaN is False
FloatLeq(x, y) == x # NaN /\ y # NaN /\ x <= y

\* mutant of BidTooLow: every bid is turned down
BidTooLow_Always(value, prev_value) == TRUE

\* lance.py:188  if value <= prev_value
BidTooLow(value, prev_value) == FloatLeq(value, prev_value)

\* lance.py:101,131  basic_ack: an acknowledged delivery leaves the queue; a
\* delivery whose ack does not reach the broker stays queued and is
\* delivered again (at-least-once)
Settle(q, acked) == IF acked THEN Tail(q) ELSE q

\* lance.py:88-89, 107-108  msg = json.loads(body.decode()); aid = int(msg.get("id"))
\* raises for a body that is not JSON or has no id that int() takes
Decodes(m) == m # Undecodable

\* lance.py:85-101  an exception of the decoding is caught before the lock
\* is asked for; the delivery is acknowledged in every case
on_leilao_iniciado(acked) ==
  /\ q_iniciado # <<>>
  /\ faults + Fault(acked) <= MaxFaults
  /\ LET aid == Head(q_iniciado)
     IN IF Decodes(aid)
        THEN /\ LockFree
             /\ active_auctions' = active_auctions \cup {aid}
             /\ best_bids' = IF NeedsEmptyEntry(best_bids, aid)
                             THEN SetBest(best_bids, aid, [user |-> NoUser, value |-> 0])
                             ELSE best_bids
        ELSE UNCHANGED <<active_auctions, best_bids>>
  /\ q_iniciado' = Settle(q_iniciado, acked)
  /\ faults' = faults + Fault(acked)
  /\ UNCHANGED <<q_finalizado, bus>>
  /\ UNCHANGED <<auctions_lock, reqs, nreq, offered, winner_computed>>
  /\ UNCHANGED <<regVars, notifVars>>

\* lance.py:104-131
on_leilao_finalizado(acked, ok) ==
  /\ q_finalizado # <<>>
  /\ faults + Fault(acked) + Fault(ok) <= MaxFaults
  /\ LET aid == Head(q_finalizado)
     IN IF Decodes(aid)
        THEN /\ LockFree
             /\ HasWinner(best_bids, aid) \/ ok     \* nothing to publish: no failure
             /\ active_auctions' = Deactivate(active_auctions, aid)
             /\ bus' = IF HasWinner(best_bids, aid)
                       THEN publish(bus, [event |-> "leilao_vencedor", auction_id |-> aid,
                                          winner_id |-> best_bids[aid].user,
                                          value |-> best_bids[aid].value], ok)
                       ELSE bus
             /\ winner_computed' = winner_computed \cup {aid}
        ELSE /\ ok
             /\ UNCHANGED <<active_auctions, bus, winner_computed>>
  /\ q_finalizado' = Settle(q_finalizado, acked)
  /\ faults' = faults + Fault(acked) + Fault(ok)
  /\ UNCHANGED <<q_iniciado, best_bids, auctions_lock, reqs, nreq, offered>>
  /\ UNCHANGED <<regVars, notifVars>>

\* lance.py:168  if not auction_id or not user_id or not value
\* (0 and 0.0 are falsy, NaN is not)
MissingField(aid, uid, value) == aid = 0 \/ uid = "" \/ value = 0

\* lance.py:160-186  POST /lances: the fields are parsed and a request with a
\* falsy field is answered 400; otherwise the request takes auctions_lock,
\* checks the auction and reads the current best.  signed tells whether the
\* request comes with a signature that verifies; the handler reads only
\* auction_id, user_id and value.
efetuar_lance_check(aid, uid, value, signed, ok) ==
  /\ nreq < MaxBids
  /\ nreq' = nreq + 1
  /\ faults + Fault(ok) <= MaxFaults
  /\ faults' = faults + Fault(ok)
  /\ (~MissingField(aid, uid, value) /\ aid \notin active_auctions) \/ ok
  /\ LET r == [n |-> nreq + 1, auction_id |-> aid, user_id |-> uid, value |-> value,
               prev_value |-> GetBest(best_bids, aid).value,
               signed |-> signed,                        \* history
               late |-> aid \in leiloes_finalizados]     \* history
     IN IF MissingField(aid, uid, value)
        THEN UNCHANGED <<bus, auctions_lock, reqs, offered>>
        ELSE /\ LockFree
             /\ IF aid \notin active_auctions
                THEN /\ bus' = publish(bus, [event |-> "lance_invalidado",
                                             auction_id |-> aid, user_id |-> uid,
                                             value |-> value,
                                             reason |-> <<"Leilao nao esta ativo">>], ok)
                     /\ UNCHANGED <<auctions_lock, reqs, offered>>
                ELSE /\ reqs' = reqs \cup {r}
                     /\ auctions_lock' = Acquire(r.n)
                     /\ offered' = offered \cup
                          {[auction_id |-> aid, user_id |-> uid, value |-> value]}
                     /\ UNCHANGED bus
  /\ UNCHANGED <<active_auctions, best_bids, winner_computed>>
  /\ UNCHANGED <<q_iniciado, q_finalizado>>
  /\ UNCHANGED <<regVars, notifVars>>

\* lance.py:188-218  the comparison, the ledger write, the outcome event and
\* the release of the lock
efetuar_lance_commit(r, ok) ==
  /\ r \in reqs
  /\ faults + Fault(ok) <= MaxFaults
  /\ faults' = faults + Fault(ok)
  /\ IF BidTooLow(r.value, r.prev_value)
     THEN /\ bus' = publish(bus, [event |-> "lance_invalidado",
                                  auction_id |-> r.auction_id, user_id |-> r.user_id,
                                  value |-> r.value,
                                  reason |-> <<"Lance deve ser maior que", r.prev_value>>], ok)
          /\ UNCHANGED best_bids
     ELSE /\ best_bids' = SetBest(best_bids, r.auction_id,
                                  [user |-> r.user_id, value |-> r.value])
          /\ bus' = publish(bus, [event |-> "lance_validado",
                                  auction_id |-> r.auction_id, user_id |-> r.user_id,
                                  value |-> r.value,
                                  previous_value |-> r.prev_value], ok)
  /\ reqs' = reqs \ {r}
  /\ auctions_lock' = 0
  /\ UNCHANGED <<active_auctions, nreq, offered, winner_computed>>
  /\ UNCHANGED <<q_iniciado, q_finalizado>>
  /\ UNCHANGED <<regVars, notifVars>>

\* -------------------------------------------------------- the wire

\* json.dumps(body).encode("utf-8") with the default settings, as every
\* publish of the services calls it: the bytes on the wire are the document
\* in the form json.dumps gives it
Dumps(msg) == [form |-> "dumps", doc |-> msg]

\* notificacao.py:64  json.loads(body.decode()) raises for bytes that are
\* not a JSON document
Decodable(body) == body.form # "raw"

\* notificacao.py:64  json.loads(body.decode()): the document, whatever the
\* form it was written in
Loads(body) == body.doc

\* lance.py:200-210 and 117-122  the events MS Lance publishes for auction a;
\* it sets no "id" key
Validado(a) ==
  [event |-> "lance_validado", auction_id |-> a, id |-> NoId,
   user_id |-> "A", value |-> 1, previous_value |-> 0]
Vencedor(a) ==
  [event |-> "leilao_vencedor", auction_id |-> a, id |-> NoId,
   winner_id |-> "A", value |-> 1]

\* bytes that are no JSON document
RawBody == [form |-> "raw", doc |-> [event |-> "", auction_id |-> NoId, id |-> NoId]]

\* notificacao.py:31-36  what the bindings of the router's queues deliver:
\* the events of MS Lance, a document without an auction id, and bytes that
\* are no JSON
RouterInputs(q) ==
  IF q = "lance_validado"
  THEN {Dumps(Validado(a)) : a \in AuctionIds \cup {NoId}} \cup {RawBody}
  ELSE {Dumps(Vencedor(a)) : a \in AuctionIds} \cup {RawBody}

\* ------------------------------------------------------ MS Notificacao

\* mutant of HasAuctionId: every document is taken to carry an id
HasAuctionId_Always(msg) == TRUE

\* notificacao.py:65  int(msg.get("auction_id") or msg.get("id")) raises when
\* both are missing (or falsy)
HasAuctionId(msg) == msg.auction_id # NoId \/ msg.id # NoId

\* notificacao.py:65  aid = int(msg.get("auction_id") or msg.get("id"))
AuctionIdOf(msg) == IF msg.auction_id # NoId THEN msg.auction_id ELSE msg.id

\* mutant of RoutingKey: one topic for every auction
RoutingKey_First(auction_id) == 1

\* notificacao.py:44  rkey = f"leilao.{auction_id}"; a key leilao.<n> is
\* written as the number n
RoutingKey(auction_id) == auction_id

\* mutant of ensure_leilao_queue: nothing is declared
ensure_leilao_queue_Skipped(queues, auction_id) == queues

\* notificacao.py:42-47 (client.py:140-145)  queue_declare and queue_bind of
\* leilao_<id>: a queue that exists is left as it is
ensure_leilao_queue(queues, auction_id) ==
  IF auction_id \in DOMAIN queues
  THEN queues
  ELSE [a \in DOMAIN queues \cup {auction_id} |->
          IF a = auction_id THEN <<>> ELSE queues[a]]

\* the direct exchange: a message goes to the queue bound to its routing
\* key; with no such queue it is dropped
Route(queues, rkey, body) ==
  IF rkey \in DOMAIN queues
  THEN [queues EXCEPT ![rkey] = Append(@, body)]
  ELSE queues

\* notificacao.py:81-82  the queue a delivery of on_event comes from
RouterQueue(q) == IF q = "lance_validado" THEN q_validado ELSE q_vencedor

\* notificacao.py:68, 73  basic_ack: the delivery at the head of queue q
\* leaves it
AckRouterQueue(q) ==
  IF q = "lance_validado"
  THEN q_validado' = Tail(q_validado) /\ UNCHANGED q_vencedor
  ELSE q_vencedor' = Tail(q_vencedor) /\ UNCHANGED q_validado

\* notificacao.py:31-36  the exchange puts a message with the routing key of
\* queue q into it
deliver_event(q, body) ==
  /\ Len(q_validado) + Len(q_vencedor) + Len(routed) < MaxBids
  /\ IF q = "lance_validado"
     THEN q_validado' = Append(q_validado, body) /\ UNCHANGED q_vencedor
     ELSE q_vencedor' = Append(q_vencedor, body) /\ UNCHANGED q_validado
  /\ UNCHANGED <<leilao_queues, router, routed, q_realizado, started_consumers,
                 received, verdicts>>
  /\ UNCHANGED <<regVars, brokerVars, valVars>>

\* notificacao.py:62-73  on_event for the delivery at the head of queue q.
\* A publish that raises is not caught: start_consuming raises, main closes
\* the connection (notificacao.py:85-88) and the process ends with the
\* delivery unacknowledged, which the broker keeps in the queue.
on_event(q, ok) ==
  /\ router = "up"
  /\ RouterQueue(q) # <<>>
  /\ faults + Fault(ok) <= MaxFaults
  /\ faults' = faults + Fault(ok)
  /\ LET body == Head(RouterQueue(q))
     IN IF ~Decodable(body) \/ ~HasAuctionId(Loads(body))
        THEN /\ ok                               \* nothing to publish
             /\ AckRouterQueue(q)
             /\ UNCHANGED <<leilao_queues, router, routed>>
        ELSE LET msg == Loads(body)
                 aid == AuctionIdOf(msg)
                 declared == ensure_leilao_queue(leilao_queues, aid)
             IN IF ok
                THEN /\ leilao_queues' = Route(declared, RoutingKey(aid), Dumps(msg))
                     /\ routed' = Append(routed, [rkey |-> RoutingKey(aid),
                                                  body |-> Dumps(msg)])
                     /\ AckRouterQueue(q)
                     /\ UNCHANGED router
                ELSE /\ leilao_queues' = declared
                     /\ router' = "dead"
                     /\ UNCHANGED <<q_validado, q_vencedor, routed>>
  /\ UNCHANGED <<q_iniciado, q_finalizado, bus>>
  /\ UNCHANGED <<q_realizado, started_consumers, received, verdicts>>
  /\ UNCHANGED <<regVars, valVars>>

\* ------------------------------------------------------------- clients

\* client.py:218-220  the signed envelope of a bid
Envelope(c, aid, value) ==
  [payload |-> [event |-> "lance.realizado", auction_id |-> aid, user_id |-> c,
                value |-> value],
   key_id |-> c]

\* client.py:203-222  one iteration of the bidding loop of client c for the
\* auction aid of its snapshot: the first bid on an auction starts the
\* thread consume_notifications (client.py:151-155), which declares the queue
\* leilao_<aid>; the envelope goes to the queue lance_realizado that the
\* client has declared and bound itself (client.py:197-198).  The values of
\* a run grow (client.py:206-213).
publisher_loop(c, aid) ==
  /\ Len(q_realizado) < MaxBids
  /\ q_realizado' = Append(q_realizado, Envelope(c, aid, Len(q_realizado) + 1))
  /\ started_consumers' = [started_consumers EXCEPT ![c] = @ \cup {aid}]
  /\ leilao_queues' = ensure_leilao_queue(leilao_queues, aid)
  /\ UNCHANGED <<q_validado, q_vencedor, router, routed, received, verdicts>>
  /\ UNCHANGED <<regVars, brokerVars, valVars>>

\* client.py:158-161  json.loads(body.decode()), and {"raw": ...} for bytes
\* that are no JSON document
NotifyDoc(body) == IF Decodable(body) THEN Loads(body) ELSE [raw |-> ""]

\* dict.get(key): the value of the key, None when the document has no such key
Get(msg, key) == IF key \in DOMAIN msg THEN msg[key] ELSE NoUser

\* client.py:164  msg.get("event") == "leilao.vencedor" and
\* str(msg.get("auction_id")) == auction_id
IsResult(msg, aid) ==
  /\ Get(msg, "event") = "leilao.vencedor"
  /\ Get(msg, "auction_id") = aid

\* client.py:165-170  winner = msg.get("user_id"); if winner == CLIENT_ID
Verdict(msg, c) == IF Get(msg, "user_id") = c THEN "won" ELSE "lost"

\* client.py:157-172  on_notify of client c for the queue leilao_<aid>: the
\* broker hands the message at the head of the queue to one of the queue's
\* consumers; auto_ack removes it at once.  A message the client takes for
\* the result of its auction is announced as won or lost.
on_notify(c, aid) ==
  /\ aid \in started_consumers[c]
  /\ aid \in DOMAIN leilao_queues
  /\ leilao_queues[aid] # <<>>
  /\ received' = [received EXCEPT ![c] = Append(@, Head(leilao_queues[aid]))]
  /\ verdicts' =
       IF IsResult(NotifyDoc(Head(leilao_queues[aid])), aid)
       THEN [verdicts EXCEPT ![c] = @ \cup
               {[auction_id |-> aid,
                 verdict |-> Verdict(NotifyDoc(Head(leilao_queues[aid])), c)]}]
       ELSE verdicts
  /\ leilao_queues' = [leilao_queues EXCEPT ![aid] = Tail(@)]
  /\ UNCHANGED <<q_validado, q_vencedor, router, routed, q_realizado,
                 started_consumers>>
  /\ UNCHANGED <<regVars, brokerVars, valVars>>

\* lance.py:57-62  the exchange puts a message with the routing key kind into
\* the validator's queue: the event of auction m, or a body that does not
\* decode.  One such message is in flight at a time.
deliver_lifecycle(kind, m) ==
  /\ q_iniciado = <<>> /\ q_finalizado = <<>>
  /\ IF kind = "leilao.iniciado"
     THEN q_iniciado' = Append(q_iniciado, m) /\ UNCHANGED q_finalizado
     ELSE q_finalizado' = Append(q_finalizado, m) /\ UNCHANGED q_iniciado
  /\ UNCHANGED <<bus, faults>>
  /\ UNCHANGED <<regVars, valVars, notifVars>>

\* ------------------------------------------------------- specification

Init ==
  /\ leiloes_db = <<>>
  /\ leiloes_ativos = <<>>
  /\ leiloes_finalizados = {}
  /\ next_auction_id = 1
  /\ now = 0
  /\ pub_reg = <<>>
  /\ sched = "delay"
  /\ criar_status = 0
  /\ q_iniciado = <<>>
  /\ q_finalizado = <<>>
  /\ bus = <<>>
  /\ faults = 0
  /\ active_auctions = {}
  /\ best_bids = <<>>
  /\ auctions_lock = 0
  /\ reqs = {}
  /\ nreq = 0
  /\ offered = {}
  /\ winner_computed = {}
  /\ q_validado = <<>>
  /\ q_vencedor = <<>>
  /\ leilao_queues = <<>>
  /\ router = "up"
  /\ routed = <<>>
  /\ q_realizado = <<>>
  /\ started_consumers = [c \in ClientIds |-> {}]
  /\ received = [c \in ClientIds |-> <<>>]
  /\ verdicts = [c \in ClientIds |-> {}]

Next ==
  \/ criar_leilao(0, 1)
  \/ load_batch
  \/ \E fail \in PublishSlots : manage_auctions(fail)
  \/ Advance(Times)
  \/ \E acked \in BOOLEAN : on_leilao_iniciado(acked)
  \/ \E acked \in BOOLEAN, ok \in BOOLEAN : on_leilao_finalizado(acked, ok)
  \/ \E b \in BidInputs, signed \in BOOLEAN, ok \in BOOLEAN :
       efetuar_lance_check(b[1], Clients[nreq + 1], b[2], signed, ok)
  \/ \E r \in reqs, ok \in BOOLEAN : efetuar_lance_commit(r, ok)

Spec == Init /\ [][Next]_vars

\* the same system when every publish of MS Lance reaches the exchange (an
\* ack can still be lost)
NextReliable ==
  \/ criar_leilao(0, 1)
  \/ load_batch
  \/ manage_auctions(0)
  \/ Advance(Times)
  \/ \E acked \in BOOLEAN : on_leilao_iniciado(acked)
  \/ \E acked \in BOOLEAN : on_leilao_finalizado(acked, TRUE)
  \/ \E b \in BidInputs, signed \in BOOLEAN :
       efetuar_lance_check(b[1], Clients[nreq + 1], b[2], signed, TRUE)
  \/ \E r \in reqs : efetuar_lance_commit(r, TRUE)

SpecReliable == Init /\ [][NextReliable]_vars

\* the registry followed alone, with schedules that start later and end
\* later, valid or not, and a clock that reaches them
NextRegistry ==
  \/ \E s \in Times, e \in LateTimes : criar_leilao(s, e)
  \/ load_batch
  \/ \E fail \in PublishSlots : manage_auctions(fail)
  \/ Advance(LateTimes)

SpecRegistry == Init /\ [][NextRegistry]_vars

\* the scheduler thread runs and the clock advances
FairRegistry ==
  /\ SpecRegistry
  /\ WF_vars(load_batch)
  /\ WF_vars(\E fail \in PublishSlots : manage_auctions(fail))
  /\ WF_vars(Advance(LateTimes))

\* the whole system with its threads running: the scheduler polls, the
\* clock advances, the validator's consumer thread handles what is queued
\* and a request that holds the lock runs to its end
FairSpec ==
  /\ Spec
  /\ WF_vars(load_batch)
  /\ WF_vars(\E fail \in PublishSlots : manage_auctions(fail))
  /\ WF_vars(Advance(Times))
  /\ WF_vars(\E acked \in BOOLEAN : on_leilao_iniciado(acked))
  /\ WF_vars(\E acked \in BOOLEAN, ok \in BOOLEAN : on_leilao_finalizado(acked, ok))
  /\ WF_vars(\E r \in reqs, ok \in BOOLEAN : efetuar_lance_commit(r, ok))

\* the router and the clients followed alone, with the messages the broker
\* hands them
NextNotify ==
  \/ \E q \in RouterQueues : \E body \in RouterInputs(q) : deliver_event(q, body)
  \/ \E q \in RouterQueues, ok \in BOOLEAN : on_event(q, ok)
  \/ \E c \in ClientIds, aid \in AuctionIds : publisher_loop(c, aid)
  \/ \E c \in ClientIds, aid \in AuctionIds : on_notify(c, aid)

SpecNotify == Init /\ [][NextNotify]_vars

\* the router's consumer and the clients' consumer threads run
FairNotify ==
  /\ SpecNotify
  /\ WF_vars(\E q \in RouterQueues, ok \in BOOLEAN : on_event(q, ok))
  /\ WF_vars(\E c \in ClientIds, aid \in AuctionIds : on_notify(c, aid))

\* the consumers of the router and of the validator followed alone, with
\* messages of any body in their queues
NextConsumers ==
  \/ \E q \in RouterQueues : \E body \in RouterInputs(q) : deliver_event(q, body)
  \/ \E q \in RouterQueues, ok \in BOOLEAN : on_event(q, ok)
  \/ \E kind \in Kinds, m \in AuctionIds \cup {Undecodable} : deliver_lifecycle(kind, m)
  \/ \E acked \in BOOLEAN : on_leilao_iniciado(acked)
  \/ \E acked \in BOOLEAN, ok \in BOOLEAN : on_leilao_finalizado(acked, ok)

SpecConsumers == Init /\ [][NextConsumers]_vars

\* ---------------------------------------------------------------- claims

\* positions of the events of one kind for auction a on the exchange b
EventsOf(b, kind, a) ==
  {i \in DOMAIN b : b[i].event = kind /\ b[i].auction_id = a}

Validados(b, a)  == EventsOf(b, "lance_validado", a)
Vencedores(b, a) == EventsOf(b, "leilao_vencedor", a)

\* the ledger's entry for a, the absent entry read as (None, 0)
CurrentBest(a) ==
  IF a \in DOMAIN best_bids THEN best_bids[a] ELSE [user |-> NoUser, value |-> 0]

CurrentBestNext(a) ==
  IF a \in DOMAIN best_bids' THEN best_bids'[a] ELSE [user |-> NoUser, value |-> 0]

NoAcceptedBid(a) == CurrentBest(a).user = NoUser

\* the order of the numbers; NaN is neither greater nor less than anything
Greater(x, y) == x # NaN /\ y # NaN /\ x > y

StatusOf(a) ==
  LET hits == {i \in DOMAIN leiloes_db : leiloes_db[i].id = a}
  IN IF hits = {} THEN "unknown" ELSE leiloes_db[CHOOSE i \in hits : TRUE].status

\* C1: for every auction at most one leilao.vencedor event is ever published,
\* also when leilao.finalizado is delivered more than once.
C1_AtMostOneWinner ==
  \A a \in AuctionIds : Cardinality(Vencedores(bus, a)) <= 1

\* C2: every published leilao.vencedor carries the bidder and the value of the
\* last lance.validado published before it for that auction, and no
\* lance.validado of that auction, earlier or later, has a greater value.
C2_WinnerIsLastValidated ==
  \A a \in AuctionIds : \A k \in Vencedores(bus, a) :
    LET before == {i \in Validados(bus, a) : i < k}
    IN /\ before # {}
       /\ LET m == CHOOSE i \in before : \A j \in before : j <= i
          IN /\ bus[k].winner_id = bus[m].user_id
             /\ bus[k].value = bus[m].value
       /\ \A i \in Validados(bus, a) : ~Greater(bus[i].value, bus[k].value)

\* C3: once leilao.finalizado has been processed for an auction, its ledger
\* entry never changes again and no lance.validado is published for it.
C3_NoBidAfterWinner ==
  [][\A a \in winner_computed :
       /\ CurrentBestNext(a) = CurrentBest(a)
       /\ Validados(bus', a) = Validados(bus, a)]_vars

\* C4: a leilao.vencedor event exists only for an auction that the registry
\* has moved to FINISHED and whose leilao.finalizado it has published; never
\* for an auction that is still scheduled or active in the registry.
C4_WinnerOnlyAfterFinished ==
  \A i \in DOMAIN bus :
    bus[i].event = "leilao_vencedor" =>
      LET a == bus[i].auction_id
      IN /\ a \in leiloes_finalizados
         /\ a \notin IdsOf(leiloes_ativos)
         /\ StatusOf(a) = "finalizado"
         /\ \E k \in DOMAIN pub_reg :
              pub_reg[k] = [kind |-> "leilao.finalizado", id |-> a]

C4_Witness ==
  \E i \in DOMAIN bus : bus[i].event = "leilao_vencedor"

\* C5: a step taken while the ledger holds no accepted bid for an auction (no
\* entry, or an entry without bidder) publishes no leilao.vencedor for it; in
\* particular processing leilao.finalizado then publishes nothing.
C5_NoBidNoWinner ==
  [][\A a \in AuctionIds :
       NoAcceptedBid(a) => Vencedores(bus', a) = Vencedores(bus, a)]_vars

C5_Witness ==
  \E a \in winner_computed : a \in DOMAIN best_bids /\ NoAcceptedBid(a)

\* C6: a bid for an auction that is not active in the validator's view leaves
\* the ledger unchanged and puts exactly one lance.invalidado with the reason
\* "auction not active" on the exchange.
C6_InactiveBidInvalidated ==
  [][\A b \in BidInputs, signed \in BOOLEAN, ok \in BOOLEAN :
       (efetuar_lance_check(b[1], Clients[nreq + 1], b[2], signed, ok)
          /\ b[2] # 0 /\ b[1] \notin active_auctions)
       => /\ best_bids' = best_bids
          /\ bus' = Append(bus, [event |-> "lance_invalidado", auction_id |-> b[1],
                                 user_id |-> Clients[nreq + 1], value |-> b[2],
                                 reason |-> <<"Leilao nao esta ativo">>])]_vars

\* C7: a bid that arrives after the registry has finished its auction is never
\* accepted, whether or not the validator has consumed leilao.finalizado.
C7_LateBidRejected ==
  [][\A r \in reqs, ok \in BOOLEAN :
       (efetuar_lance_commit(r, ok) /\ r.late)
       => /\ best_bids' = best_bids
          /\ Validados(bus', r.auction_id) = Validados(bus, r.auction_id)]_vars

\* C8: a bid is accepted (the ledger entry becomes the bid, a lance.validado
\* is published) only if its value is strictly greater than the auction's
\* current best value, 0 when there is none; a bid with an equal or lower
\* value leaves the ledger unchanged and gets no lance.validado.
C8_StrictlyGreater ==
  [][\A r \in reqs, ok \in BOOLEAN :
       efetuar_lance_commit(r, ok) =>
         IF Greater(r.value, CurrentBest(r.auction_id).value)
         THEN best_bids'[r.auction_id] = [user |-> r.user_id, value |-> r.value]
         ELSE /\ best_bids' = best_bids
              /\ Validados(bus', r.auction_id) = Validados(bus, r.auction_id)]_vars

\* C9: the value of a ledger entry never decreases, an entry is never
\* removed, and every change of an entry strictly increases its value and
\* sets its bidder to the bidder of the bid accepted in that step.
C9_BestBidMonotonic ==
  [][\A a \in AuctionIds :
       /\ a \in DOMAIN best_bids => a \in DOMAIN best_bids'
       /\ ~Greater(CurrentBest(a).value, CurrentBestNext(a).value)
       /\ CurrentBestNext(a) # CurrentBest(a) =>
            /\ Greater(CurrentBestNext(a).value, CurrentBest(a).value)
            /\ \E r \in reqs :
                 /\ r \notin reqs'
                 /\ r.auction_id = a
                 /\ CurrentBestNext(a) = [user |-> r.user_id, value |-> r.value]]_vars

C11_UnverifiedBidRejected ==
  [][\A r \in reqs, ok \in BOOLEAN :
       (efetuar_lance_commit(r, ok) /\ ~r.signed)
       => /\ best_bids' = best_bids
          /\ Validados(bus', r.auction_id) = Validados(bus, r.auction_id)]_vars

\* C12: every answered POST /lances request has exactly one outcome event on
\* the exchange: the lance.validado and lance.invalidado events are as many
\* as the requests that have returned.
C12_ExactlyOneOutcome ==
  Cardinality({i \in DOMAIN bus :
                 bus[i].event \in {"lance_validado", "lance_invalidado"}})
    = nreq - Cardinality(reqs)

\* C13: a step of the bid handler that publishes lance.invalidado for a bid
\* that had passed the activity check leaves best_bids and active_auctions as
\* they were, the bid's value does not exceed the current best value, and the
\* reason of the event carries that current best value.
C13_RejectedBidFrame ==
  [][\A r \in reqs, ok \in BOOLEAN :
       (/\ efetuar_lance_commit(r, ok)
        /\ Len(bus') = Len(bus) + 1
        /\ bus'[Len(bus')].event = "lance_invalidado")
       => /\ best_bids' = best_bids
          /\ active_auctions' = active_auctions
          /\ ~Greater(r.value, CurrentBest(r.auction_id).value)
          /\ bus'[Len(bus')].reason =
               <<"Lance deve ser maior que", CurrentBestNext(r.auction_id).value>>]_vars

\* a bid with a value equal to the current best was rejected
C13_Witness ==
  \E i \in DOMAIN bus :
    /\ bus[i].event = "lance_invalidado"
    /\ Len(bus[i].reason) = 2
    /\ bus[i].value = bus[i].reason[2]
    /\ CurrentBest(bus[i].auction_id).value = bus[i].value

\* the positions of the events <<kind, a>> in the registry's publications
RegEvents(pubs, kind, a) ==
  {k \in DOMAIN pubs : pubs[k] = [kind |-> kind, id |-> a]}

\* C14: the status of every auction of the registry tells which of its
\* events have been published so far: none while SCHEDULED, leilao.iniciado
\* alone while ACTIVE, both once FINISHED, with leilao.iniciado before
\* leilao.finalizado.  The published events stay, so a status never moves
\* backwards; and an auction whose start and end are due in the same tick
\* still goes through ACTIVE.
C14_LifecycleOrder ==
  \A i \in DOMAIN leiloes_db :
    LET l == leiloes_db[i]
        ini == RegEvents(pub_reg, "leilao.iniciado", l.id)
        fin == RegEvents(pub_reg, "leilao.finalizado", l.id)
    IN /\ l.status \in {"agendado", "ativo", "finalizado"}
       /\ l.status = "agendado" => ini = {} /\ fin = {}
       /\ l.status = "ativo" => ini # {} /\ fin = {}
       /\ l.status = "finalizado" => ini # {} /\ fin # {}
       /\ \A k \in fin : \E j \in ini : j < k

\* the second auction was started after the first one had finished, at a
\* tick at which its end was due too
C14_Witness ==
  /\ Len(pub_reg) = 4
  /\ pub_reg[2].kind = "leilao.finalizado"
  /\ pub_reg[3].kind = "leilao.iniciado"
  /\ pub_reg[4].kind = "leilao.finalizado"
  /\ \A i \in DOMAIN leiloes_db : leiloes_db[i].status = "finalizado"

\* C15: the registry has published at most one leilao.iniciado and at most
\* one leilao.finalizado for every auction id, whatever the number of ticks
\* and of auctions created between them.
C15_OneEventPerKind ==
  \A a \in AuctionIds, kind \in Kinds :
    Cardinality(RegEvents(pub_reg, kind, a)) <= 1

\* two auctions were started and then finished
C15_Witness ==
  /\ Len(pub_reg) = 4
  /\ pub_reg[1].kind = "leilao.iniciado"
  /\ pub_reg[2].kind = "leilao.iniciado"
  /\ sched = "loop"

\* the auction of the registry with id a
AuctionOf(a) ==
  leiloes_db[CHOOSE i \in DOMAIN leiloes_db : leiloes_db[i].id = a]

\* C16: every leilao.iniciado the registry has published belongs to an
\* auction whose start time the clock has reached, and every
\* leilao.finalizado to one whose end time the clock has reached; the clock
\* never goes back, so this was so at the tick of the publication.
C16_PublishedWhenDue ==
  \A k \in DOMAIN pub_reg :
    /\ \E i \in DOMAIN leiloes_db : leiloes_db[i].id = pub_reg[k].id
    /\ pub_reg[k].kind = "leilao.iniciado" => now >= AuctionOf(pub_reg[k].id).start_at
    /\ pub_reg[k].kind = "leilao.finalizado" => now >= AuctionOf(pub_reg[k].id).end_at

\* an auction that starts at 1 and ends at 2 was started and finished
C16_Witness ==
  \E i \in DOMAIN leiloes_db :
    /\ leiloes_db[i].start_at = 1
    /\ leiloes_db[i].end_at = 2
    /\ leiloes_db[i].status = "finalizado"
    /\ now = 2

\* C17: every auction stored in the registry is eventually FINISHED with its
\* leilao.iniciado and its leilao.finalizado published, when the scheduler
\* thread is scheduled fairly and the clock advances.
C17_EveryAuctionFinishes ==
  \A a \in AuctionIds :
    (\E i \in DOMAIN leiloes_db : leiloes_db[i].id = a)
      ~> (/\ StatusOf(a) = "finalizado"
          /\ RegEvents(pub_reg, "leilao.iniciado", a) # {}
          /\ RegEvents(pub_reg, "leilao.finalizado", a) # {})

\* C18: the ids of the registry's auctions strictly increase in the order of
\* insertion, so that no two auctions share an id, whether they came from
\* POST /leiloes or from the start-up batch, and the counter lies above them.
C18_IdsIncrease ==
  /\ \A i \in DOMAIN leiloes_db, j \in DOMAIN leiloes_db :
       i < j => leiloes_db[i].id < leiloes_db[j].id
  /\ \A i \in DOMAIN leiloes_db : leiloes_db[i].id < next_auction_id

\* an auction created by POST /leiloes and the auction of the batch
C18_Witness ==
  /\ Len(leiloes_db) = 2
  /\ sched = "loop"
  /\ criar_status = 201

\* C19: POST /leiloes with an end time that is not strictly after the start
\* time is answered with an error and changes nothing: the registry and the
\* id counter stay as they were and nothing is published.  Hence every
\* auction of the registry, and so every auction an event is published for,
\* ends strictly after it starts.
C19_InvalidScheduleRejected ==
  [][/\ \A s \in Times, e \in LateTimes :
          (criar_leilao(s, e) /\ e <= s)
          => /\ criar_status' = 400
             /\ leiloes_db' = leiloes_db
             /\ next_auction_id' = next_auction_id
             /\ pub_reg' = pub_reg
             /\ q_iniciado' = q_iniciado
             /\ q_finalizado' = q_finalizado
     /\ \A i \in DOMAIN leiloes_db' :
          leiloes_db'[i].start_at < leiloes_db'[i].end_at
     /\ \A k \in DOMAIN pub_reg' :
          \E i \in DOMAIN leiloes_db' : leiloes_db'[i].id = pub_reg'[k].id]_vars

\* a request was turned down after the batch was loaded: the next id is
\* still the one after the batch's
C19_Witness ==
  /\ criar_status = 400
  /\ Len(leiloes_db) = Len(lista_leiloes)
  /\ next_auction_id = Len(lista_leiloes) + 1
  /\ sched = "loop"

\* C20: a leilao.iniciado delivered again for an auction that is active in
\* the validator leaves active_auctions and best_bids as they are; a best
\* bid already recorded is not reset to the empty entry.
C20_StartedIdempotent ==
  [][\A acked \in BOOLEAN :
       (on_leilao_iniciado(acked) /\ Head(q_iniciado) \in active_auctions)
       => /\ active_auctions' = active_auctions
          /\ best_bids' = best_bids]_vars

\* the started event of an active auction that has a best bid is queued for
\* another delivery, and the validator is free to take it
C20_Witness ==
  /\ q_iniciado # <<>>
  /\ LockFree
  /\ Head(q_iniciado) \in active_auctions
  /\ HasWinner(best_bids, Head(q_iniciado))

\* C21: a leilao.iniciado that the validator processes after it has processed
\* the leilao.finalizado of the same auction does not make the auction
\* active again.
C21_NoReactivation ==
  [][\A acked \in BOOLEAN :
       (on_leilao_iniciado(acked) /\ Head(q_iniciado) \in winner_computed)
       => Head(q_iniciado) \notin active_auctions']_vars

\* C22: an auction that the registry has finished, whose leilao.finalizado is
\* queued for the validator while the ledger holds an accepted bid for it,
\* eventually has a leilao.vencedor event on the exchange, also when a
\* publish of the winner fails.
C22_WinnerEventuallyPublished ==
  \A a \in AuctionIds :
    (/\ a \in leiloes_finalizados
     /\ HasWinner(best_bids, a)
     /\ \E k \in DOMAIN q_finalizado : q_finalizado[k] = a)
      ~> (Vencedores(bus, a) # {})

\* C29: an entry of best_bids is never deleted: every auction that has an
\* entry has one after every step, and processing leilao.finalizado leaves
\* best_bids as it is, so the winning entry of a finished auction stays.
C29_LedgerKept ==
  [][/\ \A a \in DOMAIN best_bids : a \in DOMAIN best_bids'
     /\ \A a \in winner_computed :
          HasWinner(best_bids, a) => HasWinner(best_bids', a)
     /\ \A acked \in BOOLEAN, ok \in BOOLEAN :
          on_leilao_finalizado(acked, ok) => best_bids' = best_bids]_vars

\* the winner of a finished auction is still in the ledger after another
\* auction got its entry
C29_Witness ==
  \E a \in winner_computed :
    /\ a \notin active_auctions
    /\ HasWinner(best_bids, a)
    /\ Vencedores(bus, a) # {}
    /\ \E b \in DOMAIN best_bids : b # a

\* the flag and the ledger entry of auction b are the same before and after
\* the step
SameAuction(b) ==
  /\ (b \in active_auctions') = (b \in active_auctions)
  /\ (b \in DOMAIN best_bids') = (b \in DOMAIN best_bids)
  /\ b \in DOMAIN best_bids => best_bids'[b] = best_bids[b]

\* C30: a started event, a finished event or a bid for auction a leaves the
\* active flag and the ledger entry of every other auction as they are, and
\* the winner published for a is the bidder and the value of a bid that was
\* addressed to a.
C30_NoCrossAuctionEffect ==
  [][/\ \A acked \in BOOLEAN :
          on_leilao_iniciado(acked)
          => \A b \in AuctionIds \ {Head(q_iniciado)} : SameAuction(b)
     /\ \A acked \in BOOLEAN, ok \in BOOLEAN :
          on_leilao_finalizado(acked, ok)
          => \A b \in AuctionIds \ {Head(q_finalizado)} : SameAuction(b)
     \* a request that leaves the critical section has written its bid
     /\ \A r \in reqs \ reqs' :
          \A b \in AuctionIds \ {r.auction_id} : SameAuction(b)
     \* a request that is received writes nothing
     /\ nreq' # nreq => \A a \in AuctionIds : SameAuction(a)
     /\ \A i \in DOMAIN bus' :
          bus'[i].event = "leilao_vencedor"
          => \E o \in offered : /\ o.auction_id = bus'[i].auction_id
                                /\ o.user_id = bus'[i].winner_id
                                /\ o.value = bus'[i].value]_vars

\* one auction is closed with its winner published while another one is
\* still active with a bidder of its own
C30_Witness ==
  \E a \in winner_computed, b \in active_auctions :
    /\ a # b
    /\ a \notin active_auctions
    /\ HasWinner(best_bids, a) /\ HasWinner(best_bids, b)
    /\ best_bids[a].user # best_bids[b].user
    /\ Vencedores(bus, a) # {}

\* the envelopes a client can publish in one run
Envelopes ==
  {Envelope(c, a, v) : c \in ClientIds, a \in AuctionIds, v \in 1..MaxBids}

\* the events on the exchange that answer the bid of envelope e
AnswersTo(e) ==
  {i \in DOMAIN bus :
     /\ bus[i].event \in {"lance_validado", "lance_invalidado"}
     /\ bus[i].auction_id = e.payload.auction_id
     /\ bus[i].user_id = e.payload.user_id
     /\ bus[i].value = e.payload.value}

\* C23: every signed envelope a client has published on lance.realizado is
\* eventually taken from the queue and answered with a lance.validado or a
\* lance.invalidado event.
C23_EnvelopeAnswered ==
  \A e \in Envelopes :
    (\E k \in DOMAIN q_realizado : q_realizado[k] = e)
      ~> (/\ \A k \in DOMAIN q_realizado : q_realizado[k] # e
          /\ AnswersTo(e) # {})

\* C24: every message the router has published with the routing key
\* leilao.<id> is an event of auction <id>; so every message in the queue
\* leilao_<id> is one, and a client has received events only of auctions
\* whose queue it consumes.
C24_RoutedToOwnAuction ==
  /\ \A k \in DOMAIN routed :
       Loads(routed[k].body).auction_id = routed[k].rkey
  /\ \A a \in DOMAIN leilao_queues : \A k \in DOMAIN leilao_queues[a] :
       Loads(leilao_queues[a][k]).auction_id = a
  /\ \A c \in ClientIds : \A k \in DOMAIN received[c] :
       Loads(received[c][k]).auction_id \in started_consumers[c]

\* events of two auctions were routed and a client that follows one of them
\* alone has received its event
C24_Witness ==
  /\ Len(routed) = 2
  /\ routed[1].rkey # routed[2].rkey
  /\ \E c \in ClientIds :
       /\ Cardinality(started_consumers[c]) = 1
       /\ received[c] # <<>>

\* the messages of queue leilao_<a>, none while the queue is not declared
QueueOf(queues, a) == IF a \in DOMAIN queues THEN queues[a] ELSE <<>>

\* C25: for a lance.validado or leilao.vencedor delivery that carries an
\* auction id, on_event leaves the auction's queue declared; when it
\* acknowledges the delivery it has put exactly one message into that queue,
\* with the bytes of the consumed one, and into no other queue; when the
\* publish fails the delivery is not acknowledged and no queue gets a
\* message.
C25_RepublishedOnceThenAcked ==
  [][\A q \in RouterQueues, ok \in BOOLEAN :
       (/\ on_event(q, ok)
        /\ Decodable(Head(RouterQueue(q)))
        /\ Loads(Head(RouterQueue(q))).auction_id # NoId)
       => LET body == Head(RouterQueue(q))
              a    == Loads(body).auction_id
              acknowledged == <<q_validado', q_vencedor'>> # <<q_validado, q_vencedor>>
          IN /\ a \in DOMAIN leilao_queues'
             /\ \A b \in DOMAIN leilao_queues' \ {a} :
                  b \in DOMAIN leilao_queues /\ leilao_queues'[b] = leilao_queues[b]
             /\ acknowledged = ok
             /\ IF acknowledged
                THEN /\ leilao_queues'[a] = Append(QueueOf(leilao_queues, a), body)
                     /\ Len(routed') = Len(routed) + 1
                ELSE /\ leilao_queues'[a] = QueueOf(leilao_queues, a)
                     /\ routed' = routed]_vars

\* the router has republished an event of an auction that no client follows
\* and has acknowledged it
C25_Witness ==
  \E a \in DOMAIN leilao_queues :
    /\ \A c \in ClientIds : a \notin started_consumers[c]
    /\ Len(leilao_queues[a]) = 1
    /\ Len(routed) = 1
    /\ routed[1].body = leilao_queues[a][1]
    /\ q_validado = <<>> /\ q_vencedor = <<>>

\* C26: the clients that follow an auction do not compete for its
\* notifications: when client c takes a notification of auction a, every
\* other client that consumes leilao.<a> still has as many notifications of
\* a to come as before.
C26_NoCompetingConsumers ==
  [][\A c \in ClientIds, a \in AuctionIds :
       on_notify(c, a)
       => \A d \in ClientIds \ {c} :
            a \in started_consumers[d]
            => Len(leilao_queues'[a]) >= Len(leilao_queues[a])]_vars

\* the state of the validator and what its consumer has published
ValidatorView == <<active_auctions, best_bids, winner_computed, bus>>

\* the state of the router and what it has published
RouterView == <<leilao_queues, routed, router>>

\* C27: a message that does not decode or carries no auction id is
\* acknowledged by the consumer that receives it and leaves its queue;
\* handling it publishes nothing, changes nothing in the consumer's state and
\* does not stop the consumer.  (An ack that the transport loses is outside
\* the consumer's hands: the state and the publications are unchanged then
\* as well.)
C27_MalformedDropped ==
  [][/\ \A q \in RouterQueues, ok \in BOOLEAN :
          (/\ on_event(q, ok)
           /\ \/ Head(RouterQueue(q)).form = "raw"
              \/ /\ Loads(Head(RouterQueue(q))).auction_id = NoId
                 /\ Loads(Head(RouterQueue(q))).id = NoId)
          => /\ RouterView' = RouterView
             /\ RouterQueue(q)' = Tail(RouterQueue(q))
     /\ \A acked \in BOOLEAN :
          (on_leilao_iniciado(acked) /\ Head(q_iniciado) = Undecodable)
          => /\ ValidatorView' = ValidatorView
             /\ acked => q_iniciado' = Tail(q_iniciado)
     /\ \A acked \in BOOLEAN, ok \in BOOLEAN :
          (on_leilao_finalizado(acked, ok) /\ Head(q_finalizado) = Undecodable)
          => /\ ValidatorView' = ValidatorView
             /\ acked => q_finalizado' = Tail(q_finalizado)]_vars

\* the validator has an active auction, the router has republished an event,
\* and each of them has a message in its queue that does not decode
C27_Witness ==
  /\ active_auctions # {}
  /\ routed # <<>>
  /\ q_validado # <<>> /\ ~Decodable(Head(q_validado))
  /\ q_iniciado # <<>> /\ Head(q_iniciado) = Undecodable

\* C28: a transport failure stops no component for good.  Every transition
\* of a stored auction that has become due is eventually published by the
\* scheduler, and every lifecycle event in a queue of the validator is
\* eventually processed by it, whatever failed before.
C28_ResumesAfterFailure ==
  \A a \in AuctionIds :
    /\ (\E i \in DOMAIN leiloes_db :
          leiloes_db[i].id = a /\ now >= leiloes_db[i].start_at)
         ~> (RegEvents(pub_reg, "leilao.iniciado", a) # {})
    /\ (\E i \in DOMAIN leiloes_db :
          leiloes_db[i].id = a /\ now >= leiloes_db[i].end_at)
         ~> (RegEvents(pub_reg, "leilao.finalizado", a) # {})
    /\ (\E k \in DOMAIN q_iniciado : q_iniciado[k] = a)
         ~> (a \in DOMAIN best_bids)
    /\ (\E k \in DOMAIN q_finalizado : q_finalizado[k] = a)
         ~> (a \in winner_computed)

\* the value of the last lance.validado of auction a before position i of
\* the exchange, 0 when there is none
ValueBefore(b, a, i) ==
  LET earlier == {j \in Validados(b, a) : j < i}
  IN IF earlier = {} THEN 0
     ELSE b[CHOOSE j \in earlier : \A k \in earlier : k <= j].value

\* C31: the lance.validado events of one auction form a chain: each one
\* carries as previous_value the value of the lance.validado before it (0 for
\* the first), and the value of each but the first is strictly greater than
\* the value of the one before it.
C31_ValidatedChain ==
  \A a \in AuctionIds : \A i \in Validados(bus, a) :
    /\ bus[i].previous_value = ValueBefore(bus, a, i)
    /\ (\E j \in Validados(bus, a) : j < i)
         => Greater(bus[i].value, ValueBefore(bus, a, i))

\* the auctions that are ACTIVE by the events published so far
ActiveByEvents ==
  {a \in AuctionIds : /\ RegEvents(pub_reg, "leilao.iniciado", a) # {}
                      /\ RegEvents(pub_reg, "leilao.finalizado", a) = {}}

\* C32: between two operations of the registry (leiloes_lock is free) an
\* auction is in leiloes_ativos exactly when its leilao.iniciado has been
\* published and its leilao.finalizado has not, also after a publish that
\* raised; GET /leiloes lists exactly these auctions.
C32_ActiveMatchesEvents ==
  /\ {leiloes_ativos[i].id : i \in DOMAIN leiloes_ativos} = ActiveByEvents
  /\ consultar_leiloes(leiloes_db, leiloes_ativos) = ActiveByEvents

\* one auction is listed as active while another one has finished, and a
\* publish has raised
C32_Witness ==
  /\ sched = "dead"
  /\ Cardinality(ActiveByEvents) = 1
  /\ leiloes_finalizados # {}
  /\ Len(leiloes_ativos) = 1

\* the events the registry publishes in the current step
NewlyPublished == SubSeq(pub_reg', Len(pub_reg) + 1, Len(pub_reg'))

\* C33: the events of one kind that one tick of the registry publishes are
\* in ascending order of auction id, whatever the order in which those
\* auctions were started.
C33_TickInIdOrder ==
  [][\A i, j \in 1..(Len(pub_reg') - Len(pub_reg)) :
       (i < j /\ NewlyPublished[i].kind = NewlyPublished[j].kind)
         => NewlyPublished[i].id < NewlyPublished[j].id]_vars

\* C34: a bus publish is performed only by a component that does not hold
\* its state lock: no step appends an event to the bus while auctions_lock
\* is held, so a validation result or a winner reaches the bus only after
\* the critical section that computed it has been left.
C34_NoPublishUnderLock ==
  [][bus' # bus => auctions_lock = 0]_vars

C36_AckOnlyAfterSuccess ==
  [][Len(q_finalizado') < Len(q_finalizado)
       => /\ Decodes(Head(q_finalizado))
          /\ HasWinner(best_bids, Head(q_finalizado))
               => /\ Len(bus') = Len(bus) + 1
                  /\ bus'[Len(bus')].event = "leilao_vencedor"
                  /\ bus'[Len(bus')].auction_id = Head(q_finalizado)]_vars

\* C37: a winner event a client has read from the queue of its auction
\* carries user_id, the winner, and the client has announced the result of
\* that auction: as won exactly when user_id is its own id.
C37_ClientRecognisesResult ==
  \A c \in ClientIds : \A k \in DOMAIN received[c] :
    LET m == Loads(received[c][k])
    IN m.event \in {"leilao_vencedor", "leilao.vencedor"}
         => /\ "user_id" \in DOMAIN m
            /\ "value" \in DOMAIN m
            /\ \E v \in verdicts[c] :
                 /\ v.auction_id = m.auction_id
                 /\ v.verdict = "won" <=> m.user_id = c

\* C38: every entry of the ledger is either empty (no bidder, value 0) or
\* has a bidder and a value strictly greater than 0, and an entry that has a
\* bidder never turns back into the empty entry.
C38_LedgerEntriesWellFormed ==
  [][\A a \in DOMAIN best_bids :
       /\ \/ best_bids[a] = [user |-> NoUser, value |-> 0]
          \/ /\ best_bids[a].user # NoUser
             /\ Greater(best_bids[a].value, 0)
       /\ best_bids[a].user # NoUser
            => /\ a \in DOMAIN best_bids'
               /\ best_bids'[a].user # NoUser]_vars

\* the ids of the auctions in leiloes_ativos
AtivosIds == {leiloes_ativos[i].id : i \in DOMAIN leiloes_ativos}

\* C39: between two operations of the registry (leiloes_lock is free)
\* leiloes_ativos and leiloes_finalizados are disjoint, every id in either
\* belongs to an auction of leiloes_db, and the status of every auction of
\* leiloes_db is 'ativo' exactly when its id is in leiloes_ativos,
\* 'finalizado' exactly when it is in leiloes_finalizados, and 'agendado'
\* otherwise.
C39_TablesAgree ==
  /\ AtivosIds \cap leiloes_finalizados = {}
  /\ AtivosIds \cup leiloes_finalizados
       \subseteq {leiloes_db[i].id : i \in DOMAIN leiloes_db}
  /\ \A i \in DOMAIN leiloes_db :
       /\ leiloes_db[i].status = "ativo" <=> leiloes_db[i].id \in AtivosIds
       /\ leiloes_db[i].status = "finalizado"
            <=> leiloes_db[i].id \in leiloes_finalizados
       /\ leiloes_db[i].status = "agendado"
            <=> leiloes_db[i].id \notin AtivosIds \cup leiloes_finalizados

\* the three statuses have been seen: one auction has finished while
\* another one is still scheduled, and the scheduler is alive
C39_Witness ==
  /\ sched = "loop"
  /\ leiloes_finalizados # {}
  /\ AtivosIds = {}
  /\ \E i \in DOMAIN leiloes_db : leiloes_db[i].status = "agendado"
====
